---------------------------- MODULE Spec2Model ----------------------------
(***************************************************************************)
(* Model of vsix_extraction.py: the version parser and comparator, the     *)
(* per-extension compatibility search, and the driver that caches the      *)
(* search results and downloads the resolved packages.                     *)
(*                                                                         *)
(* Python strings are sequences of one-character strings, so that parsing, *)
(* splitting and comparing are computed character by character.            *)
(***************************************************************************)
EXTENDS Integers, Sequences, FiniteSets, TLC

VARIABLES
    fn_in,          \* arguments of a function-level call (a sequence of strings)
    fn_out,         \* its results (a sequence), empty before the call
    pc,             \* position of the driver (__main__) / search
    cache,          \* compatible_packages.json: None or a list of records
    ext_names,      \* names parsed from `code --list-extensions`
    compatible_extensions, \* check_compat's list under construction
    versions,       \* the version list `vsce show` returned for the extension searched
    ver_i,          \* number of loop iterations of the search started so far
    attempt,        \* what the latest version attempt met on the network
    log,            \* every attempt of this search: the version tried and
                    \* how the iteration ended ("pass", "fail" or "raise")
    compatible_versions, \* the search's result variable
    compatible_packages, \* the record list the download loop walks
    pkg_i,          \* number of records the download loop has handled
    curl,           \* curl commands issued by this run: <<name, url>>
    warned,         \* names this run printed the warning for
    writes          \* times this run has written the cache file

vars == <<fn_in, fn_out, pc, cache, ext_names, compatible_extensions,
          versions, ver_i, attempt, log, compatible_versions,
          compatible_packages, pkg_i, curl, warned, writes>>

\* Python's None, and a value that is not None: an optional value is a
\* sequence of length 0 or 1, so that None differs from the empty string
None == <<>>

Some(x) == <<x>>

Val(o) == o[1]

---------------------------------------------------------------------------
(* Strings *)

DigitSeq == <<"0", "1", "2", "3", "4", "5", "6", "7", "8", "9">>

Digits == {DigitSeq[i] : i \in 1..Len(DigitSeq)}

DigitVal(c) == (CHOOSE i \in 1..Len(DigitSeq) : DigitSeq[i] = c) - 1

\* code points of the characters used (Python compares str by code point)
Ord(c) ==
    CASE c = "*" -> 42
      [] c = "." -> 46
      [] c \in Digits -> 48 + DigitVal(c)
      [] c = "<" -> 60
      [] c = "=" -> 61
      [] c = ">" -> 62
      [] c = "^" -> 94
      [] c = "a" -> 97
      [] c = "b" -> 98
      [] c = "x" -> 120

RECURSIVE StrLess(_, _)
\* Python's  s < t  on str
StrLess(s, t) ==
    IF t = <<>> THEN FALSE
    ELSE IF s = <<>> THEN TRUE
    ELSE IF s[1] # t[1] THEN Ord(s[1]) < Ord(t[1])
    ELSE StrLess(Tail(s), Tail(t))

\* Python's  op in s  for str
IsSubstr(op, s) ==
    \E i \in 0..(Len(s) - Len(op)) : SubSeq(s, i + 1, i + Len(op)) = op

RECURSIVE SplitOn(_, _)
\* Python's  s.split(c): always at least one (possibly empty) part
SplitOn(s, c) ==
    IF \A i \in 1..Len(s) : s[i] # c THEN <<s>>
    ELSE LET k == CHOOSE i \in 1..Len(s) :
                      s[i] = c /\ \A j \in 1..(i - 1) : s[j] # c
         IN <<SubSeq(s, 1, k - 1)>> \o SplitOn(SubSeq(s, k + 1, Len(s)), c)

\* Python's  s.isdigit()  on the characters modelled
IsDigitStr(s) == s # <<>> /\ \A i \in 1..Len(s) : s[i] \in Digits

RECURSIVE ToInt(_)
\* Python's  int(s)  for a string of digits
ToInt(s) ==
    IF s = <<>> THEN 0
    ELSE 10 * ToInt(SubSeq(s, 1, Len(s) - 1)) + DigitVal(s[Len(s)])

---------------------------------------------------------------------------
(* parse_version_string *)

comparison_operators ==
    { <<<<"<">>, -1>>, <<<<"<", "=">>, -1>>, <<<<">">>, 1>>,
      <<<<">", "=">>, 1>>, <<<<"=", "=">>, 0>> }

Operators == {e[1] : e \in comparison_operators}

\* comparison_operators.get(operator, 0); operator may be None
OperatorCode(operator) ==
    IF operator # None /\ Val(operator) \in Operators
    THEN (CHOOSE e \in comparison_operators : e[1] = Val(operator))[2]
    ELSE 0

OpChars == {"<", ">", "="}

\* length of the leading run of characters of the class [<>=]
RECURSIVE LeadingRun(_)
LeadingRun(s) ==
    IF s # <<>> /\ s[1] \in OpChars THEN 1 + LeadingRun(Tail(s)) ELSE 0

\* re.match(r"([<>=]+)?(.+)", s).groups() for a non-empty s without newlines:
\* the first group takes the longest leading run that leaves the second group
\* at least one character, and is None when that is empty
ReGroups(s) ==
    LET r == LeadingRun(s)
        g == IF r = Len(s) THEN r - 1 ELSE r
    IN  [operator |-> IF g = 0 THEN None ELSE Some(SubSeq(s, 1, g)),
         version  |-> SubSeq(s, g + 1, Len(s))]

parse_version_string(version_str) ==
    IF \E op \in Operators : IsSubstr(op, version_str)
    THEN LET m == ReGroups(version_str)
         IN  [comp |-> OperatorCode(m.operator), version |-> m.version]
    ELSE [comp |-> 0, version |-> version_str]

---------------------------------------------------------------------------
(* compare_versions *)

\* int(part) if part.isdigit() else part
Part(part) ==
    IF IsDigitStr(part) THEN [int |-> TRUE, n |-> ToInt(part), s |-> <<>>]
    ELSE [int |-> FALSE, n |-> 0, s |-> part]

Parts(body) ==
    LET t == SplitOn(body, ".") IN [i \in 1..Len(t) |-> Part(t[i])]

IntPart(n) == [int |-> TRUE, n |-> n, s |-> <<>>]

\* v_parts[i] if i < len(v_parts) else 0
PartAt(parts, i) == IF i <= Len(parts) THEN parts[i] ELSE IntPart(0)

Max(a, b) == IF a >= b THEN a ELSE b

\* the loop body with the second mixed branch returning what the first does
CompareAtSameSign(v1, v2) ==
    IF v1.int /\ v2.int THEN
        IF v1.n < v2.n THEN Some(-1)
        ELSE IF v1.n > v2.n THEN Some(1) ELSE None
    ELSE IF v1.int THEN Some(-1)
    ELSE IF v2.int THEN Some(-1)
    ELSE IF v1.s # v2.s THEN (IF StrLess(v1.s, v2.s) THEN Some(-1) ELSE Some(1))
    ELSE None

\* the body of the for loop for one position: the value returned there, or
\* None when the loop goes on to the next position
CompareAt(v1, v2) ==
    IF v1.int /\ v2.int THEN
        IF v1.n < v2.n THEN Some(-1)
        ELSE IF v1.n > v2.n THEN Some(1) ELSE None
    ELSE IF v1.int THEN Some(-1)
    ELSE IF v2.int THEN Some(1)
    ELSE IF v1.s # v2.s THEN (IF StrLess(v1.s, v2.s) THEN Some(-1) ELSE Some(1))
    ELSE None

Min(a, b) == IF a <= b THEN a ELSE b

RECURSIVE CompareFromShorter(_, _, _, _, _)
\* the loop running over the shorter of the two lists only
CompareFromShorter(i, v1_parts, v2_parts, v1_comp, v2_comp) ==
    IF i > Min(Len(v1_parts), Len(v2_parts)) THEN v1_comp - v2_comp
    ELSE LET r == CompareAt(PartAt(v1_parts, i), PartAt(v2_parts, i))
         IN  IF r # None THEN Val(r)
             ELSE CompareFromShorter(i + 1, v1_parts, v2_parts, v1_comp,
                                     v2_comp)

RECURSIVE CompareFrom(_, _, _, _, _)
\* lines 190-206: the loop from position i on, then the tie-break
CompareFrom(i, v1_parts, v2_parts, v1_comp, v2_comp) ==
    IF i > Max(Len(v1_parts), Len(v2_parts)) THEN v1_comp - v2_comp
    ELSE LET r == CompareAt(PartAt(v1_parts, i), PartAt(v2_parts, i))
         IN  IF r # None THEN Val(r)
             ELSE CompareFrom(i + 1, v1_parts, v2_parts, v1_comp, v2_comp)

compare_versions(version1, version2) ==
    LET p1 == parse_version_string(version1)
        p2 == parse_version_string(version2)
    IN  CompareFrom(1, Parts(p1.version), Parts(p2.version), p1.comp, p2.comp)

---------------------------------------------------------------------------
(* The compatibility search: extract_compatible_vscode_version and what it *)
(* calls.                                                                   *)

code_version == <<"1", ".", "7", "7", ".", "3">>

override == FALSE

\* the result of a call: an exception, or a returned value
Raise == [raised |-> TRUE, value |-> None]

Return(v) == [raised |-> FALSE, value |-> v]

\* engines.vscode strings of the manifests the search meets
EngineStrs == { <<"^", "1", ".", "7", "7", ".", "3">>,
                <<"^", "1", ".", "7", "8", ".", "0">> }

\* package.json documents (JSON objects): empty, without "engines", with an
\* "engines" object lacking "vscode", or with engines.vscode a string
Manifests ==
    { [nonempty |-> FALSE, engines |-> None],
      [nonempty |-> TRUE, engines |-> None],
      [nonempty |-> TRUE, engines |-> Some(None)] }
    \cup { [nonempty |-> TRUE, engines |-> Some(Some(e))] : e \in EngineStrs }

NoManifest == [nonempty |-> FALSE, engines |-> None]

\* what the network and the archive hold for one version: the GET raises, or
\* answers with an error status, or answers with an archive that is not a zip
\* file, holds no extension/package.json, holds one that is not JSON, or holds
\* a manifest
RemotePackages ==
    { [response |-> r, archive |-> "none", manifest |-> NoManifest] :
        r \in {"neterr", "notok"} }
    \cup { [response |-> "ok", archive |-> a, manifest |-> NoManifest] :
             a \in {"badzip", "nofile", "badjson"} }
    \cup { [response |-> "ok", archive |-> "json", manifest |-> m] :
             m \in Manifests }

NoAttempt == [response |-> "none", archive |-> "none", manifest |-> NoManifest]

\* the template of get_package_url / vsix_url with its three holes filled
PackageUrl(extension, version) ==
    LET n == SplitOn(extension, ".")
    IN  <<n[1], n[1], n[2], version>>

get_package_url(extension, version) == PackageUrl(extension, version)

vsix_url(extension, version) == PackageUrl(extension, version)

\* requests.get raises on a network failure; a response that is not ok
\* gives None
download_package(remote) ==
    IF remote.response = "neterr" THEN Raise
    ELSE IF remote.response = "ok" THEN Return(Some("extension.vsix"))
    ELSE Return(None)

\* zipfile.ZipFile is opened outside the try block; IOError and
\* JSONDecodeError are caught
read_package_json(remote) ==
    IF remote.archive = "badzip" THEN Raise
    ELSE IF remote.archive \in {"nofile", "badjson"} THEN Return(None)
    ELSE Return(Some(remote.manifest))

Last(s) == s[Len(s)]

\* lines 80-83: the manifest declares engines.vscode and code_version
\* compares >= 0 with it, a leading caret stripped
EnginesAccepted(vscode) ==
    compare_versions(code_version, Last(SplitOn(vscode, "^"))) >= 0

ManifestCompatible(package_json) ==
    /\ package_json.nonempty
    /\ package_json.engines # None
    /\ Val(package_json.engines) # None
    /\ EnginesAccepted(Val(Val(package_json.engines)))

\* one iteration of the for loop: "raise", "pass" (assign and break) or
\* "fail" (go on to the next version)
Attempt(remote) ==
    LET package_path == download_package(remote)
    IN  IF package_path.raised THEN "raise"
        ELSE IF package_path.value = None THEN "fail"
        ELSE LET package_json == read_package_json(remote)
             IN  IF package_json.raised THEN "raise"
                 ELSE IF package_json.value = None THEN "fail"
                 ELSE IF ManifestCompatible(Val(package_json.value))
                      THEN "pass" ELSE "fail"

\* Python's truth value of an optional string
Truthy(o) == o # None /\ Val(o) # <<>>

\* the dictionary check_compat appends for one extension
Record(extension_name, compatible_version) ==
    [name    |-> extension_name,
     version |-> compatible_version,
     url     |-> IF Truthy(compatible_version)
                 THEN Some(vsix_url(extension_name, Val(compatible_version)))
                 ELSE None]

\* json.dump and json.load of the record list: None is written as null
JsonValue(o) ==
    IF o = None THEN [t |-> "null", v |-> <<>>] ELSE [t |-> "string", v |-> Val(o)]

PyValue(j) == IF j.t = "null" THEN None ELSE Some(j.v)

JsonDump(records) ==
    [i \in 1..Len(records) |->
        [name |-> records[i].name, version |-> JsonValue(records[i].version),
         url |-> JsonValue(records[i].url)]]

JsonLoad(doc) ==
    [i \in 1..Len(doc) |->
        [name |-> doc[i].name, version |-> PyValue(doc[i].version),
         url |-> PyValue(doc[i].url)]]

---------------------------------------------------------------------------
(* The driver: __main__, check_compat and the search loop, step by step.   *)

MaxExts == 2

MaxVersions == 3

\* all sequences of distinct elements of S of length at most n
DistinctSeqs(S, n) ==
    {q \in UNION {[1..k -> S] : k \in 0..n} :
        \A i, j \in 1..Len(q) : i # j => q[i] # q[j]}

\* extension names `code --list-extensions` can print
NameSet == { <<"p", ".", "a">>, <<"p", ".", "b">>, <<"q", ".", "a">> }

\* version strings `vsce show` can list
VersionStrs ==
    { <<>>, <<"1", ".", "0">>, <<"1", ".", "5">>, <<"2", ".", "0">> }

driverVars == <<pc, cache, ext_names, compatible_extensions, versions,
                ver_i, attempt, log, compatible_versions,
                compatible_packages, pkg_i, curl, warned, writes>>

searchVars == <<versions, ver_i, attempt, log, compatible_versions>>

\* the variables of one run of the script before its first statement
FreshRun ==
    /\ ext_names = <<>> /\ compatible_extensions = <<>> /\ versions = <<>>
    /\ ver_i = 0 /\ attempt = NoAttempt /\ log = <<>>
    /\ compatible_versions = None /\ compatible_packages = <<>>
    /\ pkg_i = 0 /\ curl = <<>> /\ warned = <<>> /\ writes = 0

Init ==
    /\ fn_in = <<>> /\ fn_out = <<>>
    /\ pc = "start" /\ cache = None
    /\ FreshRun

\* line 251: the search runs when there is no cache file or override is set
MustSearch(c) == c = None \/ override = TRUE

\* lines 239-252: list the extensions and enter check_compat
MainSearch ==
    /\ pc = "start" /\ MustSearch(cache)
    /\ \E names \in DistinctSeqs(NameSet, MaxExts) : ext_names' = names
    /\ compatible_extensions' = <<>>
    /\ pc' = "check_compat"
    /\ UNCHANGED <<fn_in, fn_out, cache, searchVars, compatible_packages,
                   pkg_i, curl, warned, writes>>

\* lines 239-251, 255-257: list the extensions and read the cache file back
MainLoad ==
    /\ pc = "start" /\ ~MustSearch(cache)
    /\ \E names \in DistinctSeqs(NameSet, MaxExts) : ext_names' = names
    /\ compatible_packages' = JsonLoad(Val(cache))
    /\ pkg_i' = 0
    /\ pc' = "download"
    /\ UNCHANGED <<fn_in, fn_out, cache, compatible_extensions,
                   searchVars, curl, warned, writes>>

\* lines 222-223, 52-57, 72: `vsce show` lists the versions of the next
\* extension and the search begins
VsceShow ==
    /\ pc = "check_compat"
    /\ Len(compatible_extensions) < Len(ext_names)
    /\ \E vs \in DistinctSeqs(VersionStrs, MaxVersions) : versions' = vs
    /\ ver_i' = 0 /\ attempt' = NoAttempt /\ log' = <<>>
    /\ compatible_versions' = None
    /\ pc' = "search"
    /\ UNCHANGED <<fn_in, fn_out, cache, ext_names,
                   compatible_extensions, compatible_packages, pkg_i, curl,
                   warned, writes>>

\* line 53: subprocess.check_output raises when `vsce show` fails
VsceFails ==
    /\ pc = "check_compat"
    /\ Len(compatible_extensions) < Len(ext_names)
    /\ pc' = "aborted"
    /\ UNCHANGED <<fn_in, fn_out, cache, ext_names,
                   compatible_extensions, searchVars, compatible_packages,
                   pkg_i, curl, warned, writes>>

\* the loop without the break of line 85
LoopWithoutBreak(compatible, i, vs) == i < Len(vs)

\* line 73 with the break of line 85: the loop takes another version
LoopGoesOn(compatible, i, vs) == compatible = None /\ i < Len(vs)

\* lines 73-85: one iteration of the search loop on the next version
TryVersion ==
    /\ pc = "search"
    /\ LoopGoesOn(compatible_versions, ver_i, versions)
    /\ \E remote \in RemotePackages :
         LET r == Attempt(remote)
         IN  /\ attempt' = remote
             /\ log' = Append(log, [version |-> versions[ver_i + 1],
                                    verdict |-> r])
             /\ pc' = IF r = "raise" THEN "aborted" ELSE pc
             /\ compatible_versions' =
                    IF r = "pass" THEN Some(versions[ver_i + 1])
                    ELSE compatible_versions
    /\ ver_i' = ver_i + 1
    /\ UNCHANGED <<fn_in, fn_out, cache, ext_names,
                   compatible_extensions, versions, compatible_packages,
                   pkg_i, curl, warned, writes>>

\* lines 87, 57-59, 224-233: the search returns and check_compat appends
\* the record of the extension
AppendRecord ==
    /\ pc = "search"
    /\ ~LoopGoesOn(compatible_versions, ver_i, versions)
    /\ compatible_extensions' =
           Append(compatible_extensions,
                  Record(ext_names[Len(compatible_extensions) + 1],
                         compatible_versions))
    /\ pc' = "check_compat"
    /\ UNCHANGED <<fn_in, fn_out, cache, ext_names, searchVars,
                   compatible_packages, pkg_i, curl, warned, writes>>

\* the dump moved into the loop of check_compat
SearchCompleteInLoop(done, names) == Len(done) >= 1 \/ Len(done) = Len(names)

\* line 222: the loop of check_compat has handled every extension
SearchComplete(done, names) == Len(done) = Len(names)

\* lines 235, 252-254: check_compat returns and the cache file is written
WriteCache ==
    /\ pc = "check_compat"
    /\ SearchComplete(compatible_extensions, ext_names)
    /\ cache' = Some(JsonDump(compatible_extensions))
    /\ writes' = writes + 1
    /\ compatible_packages' = compatible_extensions
    /\ pkg_i' = 0
    /\ pc' = "download"
    /\ UNCHANGED <<fn_in, fn_out, ext_names, compatible_extensions,
                   searchVars, curl, warned>>

\* line 260: the record has a version to download
HasVersion(package) == Truthy(package.version)

\* lines 259-267: one iteration of the download loop
DownloadStep ==
    /\ pc = "download"
    /\ pkg_i < Len(compatible_packages)
    /\ LET package == compatible_packages[pkg_i + 1]
       IN  IF HasVersion(package)
           THEN /\ curl' = Append(curl, <<package.name, package.url>>)
                /\ UNCHANGED warned
           ELSE /\ warned' = Append(warned, package.name)
                /\ UNCHANGED curl
    /\ pkg_i' = pkg_i + 1
    /\ UNCHANGED <<fn_in, fn_out, pc, cache, ext_names,
                   compatible_extensions, searchVars, compatible_packages,
                   writes>>

\* line 259: the download loop is exhausted and the script ends
Finish ==
    /\ pc = "download"
    /\ pkg_i = Len(compatible_packages)
    /\ pc' = "done"
    /\ UNCHANGED <<fn_in, fn_out, cache, ext_names,
                   compatible_extensions, searchVars, compatible_packages,
                   pkg_i, curl, warned, writes>>

\* the script is started again; only the cache file outlives a run
Restart ==
    /\ pc \in {"done", "aborted"}
    /\ pc' = "start"
    /\ ext_names' = <<>> /\ compatible_extensions' = <<>> /\ versions' = <<>>
    /\ ver_i' = 0 /\ attempt' = NoAttempt /\ log' = <<>>
    /\ compatible_versions' = None /\ compatible_packages' = <<>>
    /\ pkg_i' = 0 /\ curl' = <<>> /\ warned' = <<>> /\ writes' = 0
    /\ UNCHANGED <<fn_in, fn_out, cache>>

Next ==
    \/ MainSearch
    \/ MainLoad
    \/ VsceShow
    \/ VsceFails
    \/ TryVersion
    \/ AppendRecord
    \/ WriteCache
    \/ DownloadStep
    \/ Finish
    \/ Restart

Spec == Init /\ [][Next]_vars

---------------------------------------------------------------------------
(* Properties of the search and the driver *)

Verdicts(l) == {l[k].verdict : k \in 1..Len(l)}

FirstPass(l) ==
    CHOOSE i \in 1..Len(l) :
        l[i].verdict = "pass" /\ \A j \in 1..(i - 1) : l[j].verdict # "pass"

\* the search of the latest extension has returned to check_compat
SearchReturned == pc = "check_compat" /\ compatible_extensions # <<>>

LastRecord == compatible_extensions[Len(compatible_extensions)]

\* C1: the versions are attempted in list order, one attempt each; no version
\* is attempted after one has passed; and when the search returns, it returns
\* the first version that passed, having made (its index + 1) attempts, or
\* None after attempting every version when none passed.
C1_FirstCompatibleReturned ==
    /\ ver_i = Len(log) /\ Len(log) <= Len(versions)
    /\ \A k \in 1..Len(log) : log[k].version = versions[k]
    /\ \A k \in 1..Len(log) : log[k].verdict = "pass" => k = Len(log)
    /\ SearchReturned =>
         IF "pass" \in Verdicts(log)
         THEN /\ LastRecord.version = Some(versions[FirstPass(log)])
              /\ Len(log) = FirstPass(log)
         ELSE /\ LastRecord.version = None
              /\ Len(log) = Len(versions)

\* C1 witness: of three versions the second passed after the first failed,
\* the search returned it and the third was never attempted
C1_Witness ==
    /\ SearchReturned /\ Len(versions) = 3 /\ Len(log) = 2
    /\ log[1].verdict = "fail" /\ log[2].verdict = "pass"
    /\ LastRecord.version = Some(versions[2])

DownloadFailed(a) == a.response \in {"neterr", "notok"}

\* C3: a failed download of the latest attempt, a network failure or an error
\* response alike, ends the iteration as "fail" (the next version is tried),
\* never with an exception.
C3_DownloadFailureNeverAborts ==
    DownloadFailed(attempt) => log # <<>> /\ Last(log).verdict = "fail"

Unreadable(a) ==
    /\ a.response = "ok"
    /\ \/ a.archive \in {"badzip", "nofile", "badjson"}
       \/ /\ a.archive = "json"
          /\ \/ a.manifest.engines = None
             \/ Val(a.manifest.engines) = None

\* C4: when the download succeeded and the archive cannot be read, the
\* manifest is missing or not JSON, or it has no engines.vscode, the iteration
\* ends as "fail" (the next version is tried), never with an exception.
C4_UnreadableManifestNeverAborts ==
    Unreadable(attempt) => log # <<>> /\ Last(log).verdict = "fail"

\* C5: every record appended by check_compat, written to the cache file or
\* read back from it has its version and url both None or both not None.
C5_VersionAndUrlTogether ==
    /\ \A i \in 1..Len(compatible_extensions) :
         (compatible_extensions[i].version = None)
             <=> (compatible_extensions[i].url = None)
    /\ \A i \in 1..Len(compatible_packages) :
         (compatible_packages[i].version = None)
             <=> (compatible_packages[i].url = None)
    /\ cache # None =>
         \A i \in 1..Len(Val(cache)) :
             (Val(cache)[i].version.t = "null") <=> (Val(cache)[i].url.t = "null")

\* C6: the cache file changes only in a step taken after the search of every
\* extension has completed, once per run; a run that searched reaches the
\* download loop only having written it once; an aborted run has not written.
C6_CacheWrittenOnceAfterFullSearch ==
    /\ [][ (cache' # cache \/ writes' > writes) =>
             /\ pc = "check_compat"
             /\ Len(compatible_extensions) = Len(ext_names)
             /\ writes = 0 /\ writes' = 1
             /\ cache' = Some(JsonDump(compatible_extensions)) ]_vars
    /\ [][ (pc \in {"check_compat", "search"} /\ pc' \in {"download", "done"})
             => writes' = 1 ]_vars
    /\ [](writes <= 1)
    /\ [](pc \in {"check_compat", "search", "aborted"} => writes = 0)

\* C6 witness: a run has searched two extensions and written the cache once
C6_Witness ==
    /\ pc = "done" /\ writes = 1 /\ Len(ext_names) = 2
    /\ cache = Some(JsonDump(compatible_extensions))

Count(s, x) == Cardinality({i \in 1..Len(s) : s[i] = x})

\* C7: no exception leaves a search in which no version passed, and its record
\* has a None version; the download loop has issued exactly one curl command
\* for every handled record whose version is not None, and for every other
\* handled record one warning and no curl command.
C7_NoCompatibleVersionIsWarned ==
    /\ log # <<>> => Last(log).verdict # "raise"
    /\ (SearchReturned /\ "pass" \notin Verdicts(log))
           => LastRecord.version = None
    /\ \A i \in 1..pkg_i :
         LET package == compatible_packages[i]
             c == <<package.name, package.url>>
         IN  IF package.version # None
             THEN Count(curl, c) = 1 /\ Count(warned, package.name) = 0
             ELSE Count(warned, package.name) = 1
                  /\ \A k \in 1..Len(curl) : curl[k][1] # package.name

---------------------------------------------------------------------------
(* Function-level specifications: the arguments are drawn in Init, the one *)
(* action applies the function.                                            *)

\* all strings over chars of length at most n
Strings(chars, n) == UNION {[1..k -> chars] : k \in 0..n}

IdleDriver == pc = "idle" /\ cache = None /\ FreshRun

(* parse_version_string *)

MaxParseLen == 4

ParseChars == {"1", ".", "<", ">", "="}

InitParse ==
    /\ \E s \in Strings(ParseChars, MaxParseLen) : fn_in = <<s>>
    /\ fn_out = <<>>
    /\ IdleDriver

CallParse ==
    /\ fn_out = <<>>
    /\ fn_out' = <<parse_version_string(fn_in[1])>>
    /\ UNCHANGED <<fn_in, driverVars>>

NextParse == CallParse

SpecParse == InitParse /\ [][NextParse]_vars

\* the operators the string starts with
OpPrefixes(s) ==
    {op \in Operators : Len(op) <= Len(s) /\ SubSeq(s, 1, Len(op)) = op}

LongestOpPrefix(s) ==
    CHOOSE op \in OpPrefixes(s) : \A o \in OpPrefixes(s) : Len(o) <= Len(op)

CodeOf(op) ==
    IF op \in {<<"<">>, <<"<", "=">>} THEN -1
    ELSE IF op \in {<<">">>, <<">", "=">>} THEN 1
    ELSE 0

\* C10: a string that starts with an operator (the longest one it starts
\* with) followed by a non-empty body parses to (the operator's code, the
\* body); a string that starts with no operator parses to (0, the string).
C10_ParseContract ==
    fn_out # <<>> =>
        LET s == fn_in[1]
        IN  IF OpPrefixes(s) = {}
            THEN fn_out[1] = [comp |-> 0, version |-> s]
            ELSE LET op == LongestOpPrefix(s)
                 IN  Len(s) > Len(op) =>
                        fn_out[1] = [comp |-> CodeOf(op),
                                     version |-> SubSeq(s, Len(op) + 1, Len(s))]

(* lines 80-85: the acceptance of a declared engines.vscode constraint *)

MaxParts == 3

\* numeric components of the declared versions
VTokens == { <<"0">>, <<"1">>, <<"2">>, <<"3">>, <<"7", "6">>, <<"7", "7">>,
             <<"7", "8">> }

ConstraintPrefixes == { <<>>, <<"^">>, <<">", "=">> }

RECURSIVE Join(_, _)
Join(parts, sep) ==
    IF Len(parts) = 1 THEN parts[1]
    ELSE parts[1] \o sep \o Join(Tail(parts), sep)

DottedVersions ==
    {Join(t, <<".">>) : t \in UNION {[1..k -> VTokens] : k \in 1..MaxParts}}

InitAccept ==
    /\ \E p \in ConstraintPrefixes : \E v \in DottedVersions :
         fn_in = <<p \o v>>
    /\ fn_out = <<>>
    /\ IdleDriver

CallAccept ==
    /\ fn_out = <<>>
    /\ fn_out' = <<EnginesAccepted(fn_in[1])>>
    /\ UNCHANGED <<fn_in, driverVars>>

NextAccept == CallAccept

SpecAccept == InitAccept /\ [][NextAccept]_vars

\* the numbers of a dotted numeric version
Numbers(v) == LET t == SplitOn(v, ".") IN [i \in 1..Len(t) |-> ToInt(t[i])]

NumAt(n, i) == IF i <= Len(n) THEN n[i] ELSE 0

\* t >= v, component by component from the left, absent components being 0
NumbersGE(t, v) ==
    LET N == Max(Len(t), Len(v))
    IN  \/ \A i \in 1..N : NumAt(t, i) = NumAt(v, i)
        \/ \E k \in 1..N : /\ NumAt(t, k) > NumAt(v, k)
                           /\ \A j \in 1..(k - 1) : NumAt(t, j) = NumAt(v, j)

\* the version V of a constraint V, ^V or >=V
DeclaredVersion(c) ==
    IF c[1] = "^" THEN Tail(c)
    ELSE IF c[1] = ">" THEN Tail(Tail(c))
    ELSE c

\* C2: a constraint V, ^V or >=V is accepted exactly when code_version is
\* component-wise numerically greater than or equal to V.
C2_AcceptedIffTargetAtLeast ==
    fn_out # <<>> =>
        (fn_out[1] <=> NumbersGE(Numbers(code_version),
                                 Numbers(DeclaredVersion(fn_in[1]))))

(* compare_versions *)

MaxTotalLen == 4

CmpChars == {"0", "1", "2", "a", ".", "<", ">", "="}

\* pairs of strings of total length at most n
StringPairs(chars, n) ==
    UNION {Strings(chars, k) \X Strings(chars, n - k) : k \in 0..n}

Numeric == << <<"1", ".", "2", ".", "3">>, <<"1", ".", "2", ".", "1", "0">> >>

Trailing == << <<"1", ".", "2">>, <<"1", ".", "2", ".", "0">> >>

Qualified == << <<">", "=", "1", ".", "0", ".", "0">>,
                <<"1", ".", "0", ".", "0">> >>

\* the pairs the documentation of the comparator names
NamedPairs == {Numeric, Trailing, Qualified}

InitCmp ==
    /\ fn_in \in StringPairs(CmpChars, MaxTotalLen) \cup NamedPairs
    /\ fn_out = <<>>
    /\ IdleDriver

\* compare_versions applied to the pair in both orders, and to each string
\* and itself
CallCompare ==
    /\ fn_out = <<>>
    /\ fn_out' = <<compare_versions(fn_in[1], fn_in[2]),
                   compare_versions(fn_in[2], fn_in[1]),
                   compare_versions(fn_in[1], fn_in[1]),
                   compare_versions(fn_in[2], fn_in[2])>>
    /\ UNCHANGED <<fn_in, driverVars>>

NextCmp == CallCompare

SpecCmp == InitCmp /\ [][NextCmp]_vars

Sign(x) == IF x < 0 THEN -1 ELSE IF x > 0 THEN 1 ELSE 0

\* C8: for two strings neither of which starts with an operator, the two
\* orders of comparison have opposite signs (or are both 0), and each string
\* compares 0 with itself.
C8_Antisymmetric ==
    (fn_out # <<>> /\ OpPrefixes(fn_in[1]) = {} /\ OpPrefixes(fn_in[2]) = {})
        => /\ Sign(fn_out[1]) = -Sign(fn_out[2])
           /\ fn_out[3] = 0 /\ fn_out[4] = 0

\* C8 witness: strings of different lengths mixing a numeric and a
\* non-numeric token, compared in both orders
C8_Witness ==
    /\ fn_in = << <<"1", ".", "a">>, <<"1">> >>
    /\ fn_out = <<1, -1, 0, 0>>

\* one token against another, by the rule of the position
TokenLess(x, y) ==
    \/ x.int /\ y.int /\ x.n < y.n
    \/ x.int /\ ~y.int
    \/ ~x.int /\ ~y.int /\ StrLess(x.s, y.s)

\* the result the position-by-position rule gives for version1, version2
Expected(version1, version2) ==
    LET p1 == parse_version_string(version1)
        p2 == parse_version_string(version2)
        t1 == Parts(p1.version)
        t2 == Parts(p2.version)
        N  == Max(Len(t1), Len(t2))
        T1(i) == IF i <= Len(t1) THEN t1[i] ELSE IntPart(0)
        T2(i) == IF i <= Len(t2) THEN t2[i] ELSE IntPart(0)
        D  == {i \in 1..N : T1(i) # T2(i)}
    IN  IF D = {} THEN p1.comp - p2.comp
        ELSE LET k == CHOOSE i \in D : \A j \in D : i <= j
             IN  IF TokenLess(T1(k), T2(k)) THEN -1 ELSE 1

\* C9: the result is -1 or 1 by the rule of the first position at which the
\* tokens differ (a missing token being the integer 0; integers compared
\* numerically, an integer below a non-integer, non-integers lexically), and
\* the difference of the operator codes when no position differs; so
\* 1.2.3 < 1.2.10, 1.2 = 1.2.0, and >=1.0.0 against 1.0.0 is positive.
C9_PositionByPosition ==
    /\ fn_out # <<>> =>
         /\ fn_out[1] = Expected(fn_in[1], fn_in[2])
         /\ fn_out[2] = Expected(fn_in[2], fn_in[1])
    /\ (fn_out # <<>> /\ fn_in = Numeric) => fn_out[1] = -1
    /\ (fn_out # <<>> /\ fn_in = Trailing) => fn_out[1] = 0
    /\ (fn_out # <<>> /\ fn_in = Qualified) => fn_out[1] > 0

\* C9 witness: 1.2 against 1.2.0, the missing third token tying with 0
C9_Witness == fn_in = Trailing /\ fn_out = <<0, 0, 0, 0>>

===========================================================================
